---- MODULE Spec2Model ----
(***************************************************************************)
(* A model of the 16-bit virtual machine of RohitVM.hpp / RohitVM.cpp:     *)
(* the register file, the 64 KB memory, the static instruction-size map,   *)
(* the program loader and the fetch-decode-execute loop.                   *)
(*                                                                         *)
(* All integers keep the width they have in the source: registers, the     *)
(* operands and breakLine are uint16_t (U16), memory cells and the value   *)
(* returned by getInstructionSize are uint8_t (U8).                        *)
(***************************************************************************)
EXTENDS Integers, Sequences, FiniteSets, TLC

VARIABLES
    cpu,        \* VM::cpu.r, the register file (ax bx cx dx sp ip flags)
    memory,     \* VM::memory.data, 65536 bytes
    breakLine,  \* VM::breakLine, the loader's write cursor
    sizeMap,    \* the function-local static sizeMap of VM::getInstructionSize
    state,      \* "Running", "Halted" (execute returned) or "Faulted" (process exited)
    fault,      \* the message given to handleError, "" while there is none
    hist,       \* history: the last two iterations of the loop of VM::execute
    load,       \* history: the last call of VM::loadProgram (the number of calls and
                \* of instructions so far; the bytes stored, the cursor and the
                \* memory before the call, and the program given to it)
    stack,      \* history: the pushes and pops that succeeded, whether sp was
                \* moved by MOV_SP, and what was pushed and not yet popped
    peer        \* a second VM object of the process: its members and its history

vars == <<cpu, memory, breakLine, sizeMap, state, fault, hist, load, stack, peer>>

----------------------------------------------------------------------------
(* Widths and bit operations                                               *)

SIZE == 65536

U16(x) == x % 65536

U8(x) == x % 256

RECURSIVE BitAnd(_, _)
BitAnd(a, b) ==
    IF a = 0 \/ b = 0 THEN 0
    ELSE (IF a % 2 = 1 /\ b % 2 = 1 THEN 1 ELSE 0) + 2 * BitAnd(a \div 2, b \div 2)

RECURSIVE BitOr(_, _)
BitOr(a, b) ==
    IF a = 0 THEN b
    ELSE IF b = 0 THEN a
    ELSE (IF a % 2 = 1 \/ b % 2 = 1 THEN 1 ELSE 0) + 2 * BitOr(a \div 2, b \div 2)

\* x << 8 and x >> 8 on non-negative int operands
Shl8(x) == x * 256

Shr8(x) == x \div 256

\* ~mask as it acts on the 16 bits that an assignment to a uint16_t keeps
Not16(mask) == 65535 - mask

----------------------------------------------------------------------------
(* Opcode (RohitVM.hpp)                                                    *)

NOP == 1
HLT == 2
MOV == 8
MOV_BX == 9
MOV_CX == 10
MOV_DX == 11
MOV_SP == 12
STE == 16
CLE == 17
STG == 18
CLG == 19
STH == 20
CLH == 21
STL == 22
CLL == 23
PUSH == 26
POP == 27
ADD == 32
SUB == 33
MUL == 34
DIV == 35

Opcode ==
    {NOP, HLT, MOV, MOV_BX, MOV_CX, MOV_DX, MOV_SP, STE, CLE, STG, CLG, STH, CLH,
     STL, CLL, PUSH, POP, ADD, SUB, MUL, DIV}

\* Registers::Flag
Equal == 8
Greater == 4
Higher == 2
Lower == 1

\* struct Instruction; op is any value of the underlying uint8_t
Instruction(op, a1) == [op |-> op, a1 |-> a1, a2 |-> 0]

----------------------------------------------------------------------------
(* Registers and CPU                                                       *)

Registers ==
    [ax |-> 0, bx |-> 0, cx |-> 0, dx |-> 0, sp |-> 65535, ip |-> 0, flags |-> 0]

\* mutant: the clear branch keeps the masked bit instead of the others
setFlag_NoInvert(c, mask, val) ==
    IF val THEN [c EXCEPT !.flags = U16(BitOr(c.flags, mask))]
    ELSE [c EXCEPT !.flags = U16(BitAnd(c.flags, mask))]

\* CPU::setFlag
setFlag(c, mask, val) ==
    IF val THEN [c EXCEPT !.flags = U16(BitOr(c.flags, mask))]
    ELSE [c EXCEPT !.flags = U16(BitAnd(c.flags, Not16(mask)))]

setEqual(c, val) == setFlag(c, Equal, val)

setGreater(c, val) == setFlag(c, Greater, val)

setHigher(c, val) == setFlag(c, Higher, val)

setLower(c, val) == setFlag(c, Lower, val)

\* CPU::isEqual .. isLower: conversion of (flags & mask) to bool
isEqual(c) == BitAnd(c.flags, Equal) # 0

isGreater(c) == BitAnd(c.flags, Greater) # 0

isHigher(c) == BitAnd(c.flags, Higher) # 0

isLower(c) == BitAnd(c.flags, Lower) # 0

----------------------------------------------------------------------------
(* Memory: SIZE bytes.  The vector is kept as the byte `fill` that most    *)
(* cells hold and the cells `bytes` that hold another byte; MemContent     *)
(* gives the cell of every address.                                        *)

\* mutant: the cells are initialized to the tag of NOP
Memory_Nops == [fill |-> 1, bytes |-> [a \in {} |-> 0]]

\* Memory::Memory: data(SIZE, 0)
Memory == [fill |-> 0, bytes |-> [a \in {} |-> 0]]

MemContent(m, a) == IF a \in DOMAIN m.bytes THEN m.bytes[a] ELSE m.fill

\* std::vector::at: the range check of data.at(addr)
InRange(a) == a >= 0 /\ a < SIZE

\* Memory::operator[] as an rvalue.  The parameter is uint16_t: the argument
\* (an int such as ip + 1) is converted to 16 bits before at() sees it.
MemAt(m, addr) == MemContent(m, U16(addr))

\* does Memory::operator[](addr) throw std::out_of_range
MemThrows(addr) == ~InRange(U16(addr))

\* Memory::operator[] as an lvalue that is assigned the uint8_t b
MemPut(m, addr, b) ==
    LET a == U16(addr)
        keep == DOMAIN m.bytes \ {a}
    IN  IF b = m.fill
        THEN [m EXCEPT !.bytes = [x \in keep |-> m.bytes[x]]]
        ELSE [m EXCEPT !.bytes = [x \in keep \cup {a} |-> IF x = a THEN b ELSE m.bytes[x]]]

----------------------------------------------------------------------------
(* VM::getInstructionSize                                                  *)

\* the initializer of the static sizeMap
SizeMapInit ==
    [op \in Opcode |->
        IF op \in {MOV, MOV_BX, MOV_CX, MOV_DX, MOV_SP, PUSH, POP} THEN 3 ELSE 1]

\* sizeMap[op] of std::map: a key that is absent is inserted with a
\* value-initialized uint8_t (0), and that value is returned.
\* mutant: a tag that is not in the map gets the length 1
getInstructionSize_DefaultOne(sm, op) ==
    IF op \in DOMAIN sm
    THEN [size |-> sm[op], sizeMap |-> sm]
    ELSE [size |-> 1,
          sizeMap |-> [k \in DOMAIN sm \cup {op} |-> IF k = op THEN 1 ELSE sm[k]]]

getInstructionSize(sm, op) ==
    IF op \in DOMAIN sm
    THEN [size |-> sm[op], sizeMap |-> sm]
    ELSE [size |-> 0,
          sizeMap |-> [k \in DOMAIN sm \cup {op} |-> IF k = op THEN 0 ELSE sm[k]]]

----------------------------------------------------------------------------
(* VM::fetchNextInstruction                                                *)

\* memory[lo] | (memory[hi] << 8), assigned to a uint16_t
Word(m, lo, hi) == U16(BitOr(MemAt(m, lo), Shl8(MemAt(m, hi))))

fetchNextInstruction(c, m, sm) ==
    LET ip   == c.ip
        op   == MemAt(m, ip)
        gs   == getInstructionSize(sm, op)
        size == gs.size
        a1   == IF size >= 2 THEN Word(m, ip + 1, ip + 2) ELSE 0
        a2   == IF size = 5 THEN Word(m, ip + 3, ip + 4) ELSE 0
    IN  [instr   |-> [op |-> op, a1 |-> a1, a2 |-> a2],
         size    |-> size,
         thrown  |-> \/ MemThrows(ip)
                     \/ size >= 2 /\ (MemThrows(ip + 1) \/ MemThrows(ip + 2))
                     \/ size = 5 /\ (MemThrows(ip + 3) \/ MemThrows(ip + 4)),
         cpu     |-> [c EXCEPT !.ip = U16(ip + size)],
         sizeMap |-> gs.sizeMap]

----------------------------------------------------------------------------
(* VM::push, VM::pop.  handleError exits the process, so a call that       *)
(* reports an error changes nothing: the statements after it never run.    *)

\* mutant: the two bytes are stored before the overflow check
push_WriteFirst(c, m, val) ==
    LET sp == U16(c.sp + SIZE - 2)
        m1 == MemPut(m, sp, BitAnd(val, 255))
        m2 == MemPut(m1, sp + 1, BitAnd(Shr8(val), 255))
    IN  IF c.sp < 2
        THEN [cpu |-> c, memory |-> m2, error |-> "Stack Overflow"]
        ELSE [cpu |-> [c EXCEPT !.sp = sp], memory |-> m2, error |-> ""]

\* mutant: the overflow check is off by one
push_OffByOne(c, m, val) ==
    IF c.sp <= 2
    THEN [cpu |-> c, memory |-> m, error |-> "Stack Overflow"]
    ELSE LET sp == U16(c.sp - 2)
             m1 == MemPut(m, sp, BitAnd(val, 255))
             m2 == MemPut(m1, sp + 1, BitAnd(Shr8(val), 255))
         IN  [cpu |-> [c EXCEPT !.sp = sp], memory |-> m2, error |-> ""]

push(c, m, val) ==
    IF c.sp < 2
    THEN [cpu |-> c, memory |-> m, error |-> "Stack Overflow"]
    ELSE LET sp == U16(c.sp - 2)
             m1 == MemPut(m, sp, BitAnd(val, 255))
             m2 == MemPut(m1, sp + 1, BitAnd(Shr8(val), 255))
         IN  [cpu |-> [c EXCEPT !.sp = sp], memory |-> m2, error |-> ""]

\* mutant: the two bytes are combined in the wrong order
pop_Swapped(c, m) ==
    IF c.sp > SIZE - 2
    THEN [cpu |-> c, val |-> 0, error |-> "Stack Underflow"]
    ELSE [cpu |-> [c EXCEPT !.sp = U16(c.sp + 2)],
          val |-> Word(m, c.sp + 1, c.sp),
          error |-> ""]

\* mutant: the underflow check lets the last cell through
pop_Lenient(c, m) ==
    IF c.sp > SIZE - 1
    THEN [cpu |-> c, val |-> 0, error |-> "Stack Underflow"]
    ELSE [cpu |-> [c EXCEPT !.sp = U16(c.sp + 2)],
          val |-> Word(m, c.sp, c.sp + 1),
          error |-> ""]

pop(c, m) ==
    IF c.sp > SIZE - 2
    THEN [cpu |-> c, val |-> 0, error |-> "Stack Underflow"]
    ELSE [cpu |-> [c EXCEPT !.sp = U16(c.sp + 2)],
          val |-> Word(m, c.sp, c.sp + 1),
          error |-> ""]

----------------------------------------------------------------------------
(* VM::executeInstruction.  The result is the set of outcomes of the       *)
(* dispatch: the registers, the memory and the message of the error that   *)
(* ended the process ("" when there is none).                              *)

Done(c, m) == {[cpu |-> c, memory |-> m, error |-> ""]}

Failed(c, m, msg) == {[cpu |-> c, memory |-> m, error |-> msg]}

\* the operands of  cpu.r.ax *= cpu.r.bx  are promoted to (32-bit signed) int
INT_MAX == 2147483647

MulOverflows(a, b) == b # 0 /\ a > INT_MAX \div b

\* the low 16 bits of a * b
MulLow16(a, b) == U16(a * (b % 256) + U16(a * (b \div 256)) * 256)

\* A product above INT_MAX is a signed overflow, which is undefined: a build
\* either keeps the low 16 bits of the product or traps.
ExecMul(c, m) ==
    IF MulOverflows(c.ax, c.bx)
    THEN Done([c EXCEPT !.ax = MulLow16(c.ax, c.bx)], m)
         \cup Failed(c, m, "signed integer overflow")
    ELSE Done([c EXCEPT !.ax = U16(c.ax * c.bx)], m)

\* mutant: the division also sets the Equal flag, as a comparison would
ExecDiv_SetsEqual(c, m) ==
    IF c.bx = 0
    THEN Failed(c, m, "Division by zero")
    ELSE Done(setEqual([c EXCEPT !.ax = U16(c.ax \div c.bx)], TRUE), m)

\* mutant: the division is done although bx is zero
ExecDiv_Unchecked(c, m) ==
    IF c.bx = 0
    THEN Done([c EXCEPT !.ax = 65535], m)
    ELSE Done([c EXCEPT !.ax = U16(c.ax \div c.bx)], m)

ExecDiv(c, m) ==
    IF c.bx = 0
    THEN Failed(c, m, "Division by zero")
    ELSE Done([c EXCEPT !.ax = U16(c.ax \div c.bx)], m)

\* mutant: every selector from 0 to 3 pushes ax
ExecPush_AlwaysAx(c, m, a1) ==
    IF a1 \in 0 .. 3 THEN {push(c, m, c.ax)}
    ELSE Failed(c, m, "Invalid register for PUSH")

ExecPush(c, m, a1) ==
    CASE a1 = 0 -> {push(c, m, c.ax)}
      [] a1 = 1 -> {push(c, m, c.bx)}
      [] a1 = 2 -> {push(c, m, c.cx)}
      [] a1 = 3 -> {push(c, m, c.dx)}
      [] OTHER  -> Failed(c, m, "Invalid register for PUSH")

\* mutant: only the two low bits of the selector are looked at
ExecPop_LowBits(c, m, a1) ==
    LET p == pop(c, m)
        into(reg) ==
            IF p.error # "" THEN Failed(c, m, p.error)
            ELSE Done([p.cpu EXCEPT ![reg] = p.val], m)
    IN  CASE a1 % 4 = 0 -> into("ax")
          [] a1 % 4 = 1 -> into("bx")
          [] a1 % 4 = 2 -> into("cx")
          [] a1 % 4 = 3 -> into("dx")

\* cpu.r.<reg> = pop(): the register is assigned only when pop returns
ExecPop(c, m, a1) ==
    LET p == pop(c, m)
        into(reg) ==
            IF p.error # "" THEN Failed(c, m, p.error)
            ELSE Done([p.cpu EXCEPT ![reg] = p.val], m)
    IN  CASE a1 = 0 -> into("ax")
          [] a1 = 1 -> into("bx")
          [] a1 = 2 -> into("cx")
          [] a1 = 3 -> into("dx")
          [] OTHER  -> Failed(c, m, "Invalid register for POP")

\* mutant: case MOV_CX assigns dx
ExecMov_WrongRegister(c, m, op, a1) ==
    CASE op = MOV    -> Done([c EXCEPT !.ax = a1], m)
      [] op = MOV_BX -> Done([c EXCEPT !.bx = a1], m)
      [] op = MOV_CX -> Done([c EXCEPT !.dx = a1], m)
      [] op = MOV_DX -> Done([c EXCEPT !.dx = a1], m)
      [] op = MOV_SP -> Done([c EXCEPT !.sp = a1], m)

\* case MOV .. MOV_SP
ExecMov(c, m, op, a1) ==
    CASE op = MOV    -> Done([c EXCEPT !.ax = a1], m)
      [] op = MOV_BX -> Done([c EXCEPT !.bx = a1], m)
      [] op = MOV_CX -> Done([c EXCEPT !.cx = a1], m)
      [] op = MOV_DX -> Done([c EXCEPT !.dx = a1], m)
      [] op = MOV_SP -> Done([c EXCEPT !.sp = a1], m)

executeInstruction(c, m, instr) ==
    CASE instr.op = NOP    -> Done(c, m)
      [] instr.op = HLT    -> Done(c, m)
      [] instr.op \in {MOV, MOV_BX, MOV_CX, MOV_DX, MOV_SP}
                           -> ExecMov(c, m, instr.op, instr.a1)
      [] instr.op = ADD    -> Done([c EXCEPT !.ax = U16(c.ax + c.bx)], m)
      [] instr.op = SUB    -> Done([c EXCEPT !.ax = U16(c.ax + 65536 - c.bx)], m)
      [] instr.op = MUL    -> ExecMul(c, m)
      [] instr.op = DIV    -> ExecDiv(c, m)
      [] instr.op = STE    -> Done(setEqual(c, TRUE), m)
      [] instr.op = CLE    -> Done(setEqual(c, FALSE), m)
      [] instr.op = STG    -> Done(setGreater(c, TRUE), m)
      [] instr.op = CLG    -> Done(setGreater(c, FALSE), m)
      [] instr.op = STH    -> Done(setHigher(c, TRUE), m)
      [] instr.op = CLH    -> Done(setHigher(c, FALSE), m)
      [] instr.op = STL    -> Done(setLower(c, TRUE), m)
      [] instr.op = CLL    -> Done(setLower(c, FALSE), m)
      [] instr.op = PUSH   -> ExecPush(c, m, instr.a1)
      [] instr.op = POP    -> ExecPop(c, m, instr.a1)
      [] OTHER             -> Failed(c, m, "Illegal Instruction")

----------------------------------------------------------------------------
(* VM::loadProgram                                                         *)

\* mutant: the operands are stored high byte first
Encode_BigEndian(sm, instr) ==
    LET size == getInstructionSize(sm, instr.op).size
    IN  <<U8(instr.op)>>
        \o (IF size >= 2
            THEN <<BitAnd(Shr8(instr.a1), 255), BitAnd(instr.a1, 255)>> ELSE <<>>)
        \o (IF size = 5
            THEN <<BitAnd(Shr8(instr.a2), 255), BitAnd(instr.a2, 255)>> ELSE <<>>)

\* the bytes that one iteration of the loop stores for instr
Encode(sm, instr) ==
    LET size == getInstructionSize(sm, instr.op).size
    IN  <<U8(instr.op)>>
        \o (IF size >= 2
            THEN <<BitAnd(instr.a1, 255), BitAnd(Shr8(instr.a1), 255)>> ELSE <<>>)
        \o (IF size = 5
            THEN <<BitAnd(instr.a2, 255), BitAnd(Shr8(instr.a2), 255)>> ELSE <<>>)

\* the bytes stored for program[lo..hi], in the order they are stored
RECURSIVE Stream(_, _, _, _)
Stream(sm, program, lo, hi) ==
    IF lo > hi THEN <<>>
    ELSE IF lo = hi THEN Encode(sm, program[lo])
    ELSE LET mid == (lo + hi) \div 2
         IN  Stream(sm, program, lo, mid) \o Stream(sm, program, mid + 1, hi)

\* The memory after  mem[breakLine++] = s[1]; ...; mem[breakLine++] = s[Len(s)]
\* with breakLine = base at the start.  breakLine is uint16_t, so the k-th
\* byte goes to U16(base + k); a cell stored more than once keeps the last byte.
StoreStream(m, base, s) ==
    LET L == Len(s)
        last(a) == LET d == U16(a + SIZE - base)
                   IN  IF d >= L THEN -1 ELSE d + SIZE * ((L - 1 - d) \div SIZE)
        byte(a) == IF last(a) < 0 THEN MemContent(m, a) ELSE s[last(a) + 1]
        touched == IF L >= SIZE THEN 0 .. (SIZE - 1)
                   ELSE {U16(base + k) : k \in 0 .. (L - 1)}
        fill    == byte(SIZE \div 2)
        cells   == IF fill = m.fill THEN DOMAIN m.bytes \cup touched
                   ELSE 0 .. (SIZE - 1)
    IN  [fill |-> fill, bytes |-> [a \in {x \in cells : byte(x) # fill} |-> byte(a)]]

\* the static sizeMap after getInstructionSize was called for every instruction
LoadedSizeMap(sm, program) ==
    LET ops == {program[i].op : i \in 1 .. Len(program)}
    IN  [k \in DOMAIN sm \cup ops |-> IF k \in DOMAIN sm THEN sm[k] ELSE 0]

\* the history keeps the text of a program of up to MaxText instructions
MaxText == 8

loadProgram(program) ==
    LET s == Stream(sizeMap, program, 1, Len(program))
    IN  /\ state = "Running"
        /\ hist = <<>>
        /\ memory' = StoreStream(memory, breakLine, s)
        /\ breakLine' = U16(breakLine + Len(s))
        /\ sizeMap' = LoadedSizeMap(sizeMap, program)
        /\ load' = [calls  |-> load.calls + 1,
                    instrs |-> load.instrs + Len(program),
                    length |-> Len(s),
                    breakLine |-> breakLine,
                    memory |-> memory,
                    text |-> IF Len(program) <= MaxText THEN program ELSE <<>>]
        /\ UNCHANGED <<cpu, state, fault, hist, stack, peer>>

----------------------------------------------------------------------------
(* VM::execute: one iteration of the while (true) loop.  An exception is   *)
(* caught by execute and given to handleError, which exits the process as  *)
(* every other error does.                                                 *)

\* mutant: the loop also breaks on NOP
AfterDispatch_BreakOnNop(instr, error) ==
    IF error # "" THEN "Faulted"
    ELSE IF instr.op <= HLT THEN "Halted"
    ELSE "Running"

\* mutant: handleError returns to the loop instead of exiting the process
AfterDispatch_Resume(instr, error) ==
    IF instr.op = HLT THEN "Halted" ELSE "Running"

\* where the loop is after executeInstruction: the process has exited in
\* handleError, or the loop breaks on HLT, or it goes round again
AfterDispatch(instr, error) ==
    IF error # "" THEN "Faulted"
    ELSE IF instr.op = HLT THEN "Halted"
    ELSE "Running"

Iteration(f) == [instr |-> f.instr, size |-> f.size, cpu |-> cpu, memory |-> memory]

\* the history of the stack after the dispatch of instr from the registers c
\* ended with error: a push that succeeded adds the value of its register and
\* the stack pointer it found, a pop that succeeded takes the newest away
Tally(st, c, instr, error) ==
    IF error # "" THEN st
    ELSE CASE instr.op = PUSH ->
                [st EXCEPT !.pushes = @ + 1,
                           !.values = Append(@, [val |-> CASE instr.a1 = 0 -> c.ax
                                                           [] instr.a1 = 1 -> c.bx
                                                           [] instr.a1 = 2 -> c.cx
                                                           [] instr.a1 = 3 -> c.dx,
                                                 sp |-> c.sp])]
           [] instr.op = POP ->
                [st EXCEPT !.pops = @ + 1,
                           !.values = IF @ = <<>> THEN @ ELSE SubSeq(@, 1, Len(@) - 1)]
           [] instr.op = MOV_SP ->
                [st EXCEPT !.moved = TRUE, !.values = <<>>]
           [] OTHER -> st

execute ==
    /\ state = "Running"
    /\ LET f == fetchNextInstruction(cpu, memory, sizeMap)
       IN  /\ sizeMap' = f.sizeMap
           /\ hist' = IF hist = <<>> THEN <<Iteration(f)>>
                      ELSE <<hist[Len(hist)], Iteration(f)>>
           /\ IF f.thrown
              THEN /\ cpu' = cpu
                   /\ memory' = memory
                   /\ state' = "Faulted"
                   /\ fault' = "out_of_range"
                   /\ stack' = stack
              ELSE \E out \in executeInstruction(f.cpu, memory, f.instr) :
                   /\ cpu' = out.cpu
                   /\ memory' = out.memory
                   /\ fault' = out.error
                   /\ state' = AfterDispatch(f.instr, out.error)
                   /\ stack' = Tally(stack, f.cpu, f.instr, out.error)
    /\ UNCHANGED <<breakLine, load, peer>>

\* VM::VM: the members of a VM object after construction, with its history
VM ==
    [cpu |-> Registers, memory |-> Memory, breakLine |-> 0, state |-> "Running",
     fault |-> "", hist |-> <<>>,
     load |-> [calls |-> 0, instrs |-> 0, length |-> 0, breakLine |-> 0,
               memory |-> Memory, text |-> <<>>],
     stack |-> [pushes |-> 0, pops |-> 0, moved |-> FALSE, values |-> <<>>]]

Init ==
    /\ cpu = VM.cpu
    /\ memory = VM.memory
    /\ breakLine = VM.breakLine
    /\ sizeMap = SizeMapInit
    /\ state = VM.state
    /\ fault = VM.fault
    /\ hist = VM.hist
    /\ load = VM.load
    /\ stack = VM.stack
    /\ peer = VM

----------------------------------------------------------------------------
(* The programs given to loadProgram                                       *)

Halt == Instruction(HLT, 0)

\* the test programs of main.cpp
TestPrograms ==
    { <<Instruction(MOV, 4660), Halt>>,
      <<Instruction(MOV, 43981), Instruction(PUSH, 0), Instruction(POP, 1), Halt>>,
      <<Instruction(STE, 0), Instruction(STG, 0), Instruction(STH, 0),
        Instruction(STL, 0), Instruction(CLG, 0), Instruction(CLL, 0), Halt>>,
      <<Instruction(MOV, 43690), Instruction(MOV_BX, 20485),
        Instruction(MOV_CX, 61453), Instruction(MOV_DX, 57005), Halt>>,
      <<Instruction(MOV, 17), Instruction(MOV_BX, 9), Instruction(ADD, 0), Halt>>,
      <<Instruction(MOV, 21), Instruction(MOV_BX, 5), Instruction(SUB, 0), Halt>>,
      <<Instruction(MOV, 3), Instruction(MOV_BX, 4), Instruction(MUL, 0), Halt>>,
      <<Instruction(MOV, 32), Instruction(MOV_BX, 4), Instruction(DIV, 0), Halt>>,
      <<Instruction(MOV, 32), Instruction(MOV_BX, 0), Instruction(DIV, 0), Halt>> }

MovOps == {MOV, MOV_BX, MOV_CX, MOV_DX, MOV_SP}

FlagOps == {STE, CLE, STG, CLG, STH, CLH, STL, CLL}

Vals == {0, 1, 255, 256, 4660, 43981, 65535}

\* one move, or two in a row
MovPrograms ==
    { <<Instruction(m, v), Halt>> : m \in MovOps, v \in Vals }
    \cup { <<Instruction(m1, v1), Instruction(m2, v2)>> :
               m1 \in MovOps, m2 \in MovOps, v1 \in Vals, v2 \in Vals }

\* register selectors of PUSH and POP, four valid and three that are not
Selectors == {0, 1, 2, 3, 4, 256, 65535}

MovOf(sel) ==
    CASE sel = 1 -> MOV_BX [] sel = 2 -> MOV_CX [] sel = 3 -> MOV_DX [] OTHER -> MOV

StackPtrs == {0, 1, 2, 3, 4, 32768, 65533, 65534, 65535}

PushVals == {255, 43981, 65535}

\* set the stack pointer and a register, push, pop; or pop first
StackPrograms ==
    { <<Instruction(MOV_SP, s), Instruction(MovOf(a), v),
        Instruction(PUSH, a), Instruction(POP, b)>> :
          s \in StackPtrs, v \in PushVals, a \in Selectors, b \in Selectors }
    \cup { <<Instruction(MOV_SP, s), Instruction(POP, b), Instruction(PUSH, a)>> :
          s \in StackPtrs, a \in Selectors, b \in Selectors }

ArithVals == {0, 1, 3, 4, 5, 9, 17, 21, 32, 255, 256, 32768, 65535}

ArithPrograms ==
    { <<Instruction(MOV, a), Instruction(MOV_BX, b), Instruction(op, 0), Halt>> :
          a \in ArithVals, b \in ArithVals, op \in {ADD, SUB, MUL, DIV} }

\* set any of the four flags, then one flag operation
FlagPrefix(S) ==
    LET pick(op) == IF op \in S THEN <<Instruction(op, 0)>> ELSE <<>>
    IN  pick(STE) \o pick(STG) \o pick(STH) \o pick(STL)

FlagPrograms ==
    { FlagPrefix(S) \o <<Instruction(op, 0), Halt>> :
          S \in SUBSET {STE, STG, STH, STL}, op \in FlagOps }

\* every value of the operation tag, first or after other instructions
TagPrograms ==
    { <<Instruction(t, 43981), Halt>> : t \in 0 .. 255 }
    \cup { <<Instruction(MOV_DX, 57005), Instruction(STG, 0), Instruction(PUSH, 3),
             Instruction(t, 4660), Halt>> : t \in 0 .. 255 }

\* single instructions, for programs loaded by more than one call
ShortPrograms ==
    { <<Instruction(op, 258)>> : op \in {0, NOP, HLT, MOV, MOV_SP, STL, PUSH, POP, ADD, 255} }

\* pushes and pops in any order, from the stack pointer of a fresh machine
StackOps ==
    {Instruction(PUSH, 0), Instruction(PUSH, 1), Instruction(POP, 2),
     Instruction(POP, 3), Instruction(NOP, 0)}

MaxStackOps == 4

StackSeqs(n) == UNION {[1 .. k -> StackOps] : k \in 1 .. n}

DisciplinePrograms ==
    { <<Instruction(MOV, 4660), Instruction(MOV_BX, 43981)>> \o ops :
          ops \in StackSeqs(MaxStackOps) }

\* k pushes of ax, bx, cx and then k pops, from any stack pointer
LifoPrograms ==
    { <<Instruction(MOV_SP, s), Instruction(MOV, 4660), Instruction(MOV_BX, 43981),
        Instruction(MOV_CX, 255)>>
      \o [i \in 1 .. k |-> Instruction(PUSH, i - 1)]
      \o <<Instruction(MOV, 1), Instruction(STE, 0)>>
      \o [i \in 1 .. k |-> Instruction(POP, 3)] :
          s \in StackPtrs, k \in 1 .. 3 }

Programs ==
    TestPrograms \cup MovPrograms \cup StackPrograms \cup ArithPrograms
    \cup FlagPrograms \cup TagPrograms \cup ShortPrograms
    \cup DisciplinePrograms \cup LifoPrograms

\* A machine is loaded once or more before it is run (runProgram of main.cpp
\* loads once); further calls are explored while the instructions stored so
\* far stay within MaxReload.
MaxReload == 2

CanLoad(program) == load.calls = 0 \/ load.instrs + Len(program) <= MaxReload

Load ==
    /\ hist = <<>>
    /\ load.calls = 0 \/ load.instrs < MaxReload
    /\ \E program \in Programs : CanLoad(program) /\ loadProgram(program)

Next == Load \/ execute

Spec == Init /\ [][Next]_vars

----------------------------------------------------------------------------
(* Programs that fill the memory.  The instruction pointer only moves      *)
(* forward, by the size of each instruction, so the end of the memory is   *)
(* reached only by running through a program of that length.               *)

Repeat(instr, n) == [i \in 1 .. n |-> instr]

\* 65534 bytes, cells 0 .. 65533.  The push (sp = 65535) stores 08 08 in
\* cells 65533 and 65534, so the instruction stream goes on with a MOV whose
\* tag is in cell 65534.
EndProgram ==
    <<Instruction(MOV, 2056), Instruction(PUSH, 0), Instruction(NOP, 0),
      Instruction(NOP, 0)>>
    \o Repeat(Instruction(MOV, 2056), (SIZE - 10) \div 3)

\* 65537 bytes, one more than the memory holds
LargeProgram == Repeat(Instruction(NOP, 0), SIZE) \o <<Halt>>

BigPrograms == {EndProgram, LargeProgram}

LoadBig ==
    /\ load.calls = 0
    /\ \E program \in BigPrograms : loadProgram(program)

NextBig == LoadBig \/ execute

SpecBig == Init /\ [][NextBig]_vars

----------------------------------------------------------------------------
(* The loop of VM::execute has no exit but the break on HLT and the exit   *)
(* of the process in handleError, and nothing else runs in the process:    *)
(* while an iteration is possible the next one is taken (weak fairness of  *)
(* execute).                                                               *)

\* 65536 bytes, exactly the memory: 21845 moves and a NOP in cell 65535
LoopProgram ==
    Repeat(Instruction(MOV, 2056), (SIZE - 1) \div 3) \o <<Instruction(NOP, 0)>>

LoadLoop ==
    /\ load.calls = 0
    /\ loadProgram(LoopProgram)

NextLoop == LoadLoop \/ execute

SpecLoop == Init /\ [][NextLoop]_vars /\ WF_vars(execute)

----------------------------------------------------------------------------
(* Two VM objects whose calls are interleaved, as when each is run by a    *)
(* thread of its own.  The members are per object; the sizeMap of          *)
(* getInstructionSize is a function-local static, one for the process.     *)

TwoPrograms ==
    { <<Instruction(NOP, 0), Halt>>,
      <<Instruction(MOV, 4660), Halt>>,
      <<Instruction(MOV_BX, 9), Instruction(ADD, 0), Halt>>,
      <<Instruction(0, 258)>>,
      <<Instruction(STE, 0), Instruction(255, 0)>> }

LoadTwo ==
    /\ load.calls = 0
    /\ \E program \in TwoPrograms : loadProgram(program)

\* the next call is made on the other object
Switch ==
    /\ cpu' = peer.cpu
    /\ memory' = peer.memory
    /\ breakLine' = peer.breakLine
    /\ state' = peer.state
    /\ fault' = peer.fault
    /\ hist' = peer.hist
    /\ load' = peer.load
    /\ stack' = peer.stack
    /\ peer' = [cpu |-> cpu, memory |-> memory, breakLine |-> breakLine,
                state |-> state, fault |-> fault, hist |-> hist, load |-> load,
                stack |-> stack]
    /\ UNCHANGED sizeMap

NextTwo == LoadTwo \/ execute \/ Switch

SpecTwo == Init /\ [][NextTwo]_vars

----------------------------------------------------------------------------
(* Properties.  hist holds the last iterations of the loop: the fetched    *)
(* instruction and the registers and memory before the fetch.              *)

Stepped == hist # <<>>

Last == hist[Len(hist)]

Prev == hist[1]

\* the register that the selector a1 of PUSH and POP names
Reg(c, sel) ==
    CASE sel = 0 -> c.ax [] sel = 1 -> c.bx [] sel = 2 -> c.cx [] sel = 3 -> c.dx

PushThenPop ==
    /\ Len(hist) = 2
    /\ Prev.instr.op = PUSH
    /\ Prev.instr.a1 \in 0 .. 3
    /\ Last.instr.op = POP
    /\ Last.instr.a1 = Prev.instr.a1

\* C1: a push of register r at a stack pointer >= 2 followed at once by a pop
\* into r succeeds and leaves r and the stack pointer as they were before
\* the push.
C1_PushPopRoundTrip ==
    (PushThenPop /\ Prev.cpu.sp >= 2)
        => /\ state = "Running"
           /\ fault = ""
           /\ Reg(cpu, Last.instr.a1) = Reg(Prev.cpu, Last.instr.a1)
           /\ cpu.sp = Prev.cpu.sp

C1_Witness ==
    /\ PushThenPop
    /\ Prev.cpu.sp = 2
    /\ Reg(Prev.cpu, Last.instr.a1) = 43981
    /\ Reg(cpu, Last.instr.a1) = 43981
    /\ cpu.sp = 2

\* C2: a push with a valid selector faults, with Stack Overflow, exactly when
\* the stack pointer is below 2; a pop with a valid selector faults, with
\* Stack Underflow, exactly when the stack pointer is above SIZE - 2.
C2_StackFaults ==
    /\ (Stepped /\ Last.instr.op = PUSH /\ Last.instr.a1 \in 0 .. 3)
           => IF Last.cpu.sp < 2
              THEN state = "Faulted" /\ fault = "Stack Overflow"
              ELSE state = "Running" /\ fault = ""
    /\ (Stepped /\ Last.instr.op = POP /\ Last.instr.a1 \in 0 .. 3)
           => IF Last.cpu.sp > SIZE - 2
              THEN state = "Faulted" /\ fault = "Stack Underflow"
              ELSE state = "Running" /\ fault = ""

C2_Witness ==
    /\ Stepped
    /\ Last.instr.op = PUSH
    /\ Last.instr.a1 \in 0 .. 3
    /\ Last.cpu.sp = 2
    /\ state = "Running"

\* C3: a DIV while bx is zero ends the run with Division by zero, leaves ax
\* as it was, and no further iteration can follow, so Halted is never reached.
C3_DivByZero ==
    (Stepped /\ Last.instr.op = DIV /\ Last.cpu.bx = 0)
        => /\ state = "Faulted"
           /\ fault = "Division by zero"
           /\ cpu.ax = Last.cpu.ax
           /\ ~ENABLED execute

C3_Witness ==
    /\ Stepped
    /\ Last.instr.op = DIV
    /\ Last.cpu.bx = 0
    /\ Last.cpu.ax = 32
    /\ cpu.ax = 32
    /\ state = "Faulted"

\* C4: when the byte at the instruction pointer is no Opcode, the iteration
\* ends the run with Illegal Instruction and every register, the instruction
\* pointer included, is as it was before the fetch.
C4_IllegalInstruction ==
    (Stepped /\ MemAt(Last.memory, Last.cpu.ip) \notin Opcode)
        => /\ state = "Faulted"
           /\ fault = "Illegal Instruction"
           /\ cpu = Last.cpu

C4_Witness ==
    /\ Stepped
    /\ MemAt(Last.memory, Last.cpu.ip) = 255
    /\ Last.cpu.dx = 57005
    /\ Last.cpu.ip = 7
    /\ cpu = Last.cpu
    /\ fault = "Illegal Instruction"

\* C5 (as claimed; the code does otherwise): a fetch whose operand bytes lie
\* beyond the end of the memory ends the run with an out-of-range failure.
C5_FetchOutOfBounds ==
    (Stepped /\ Last.size >= 2 /\ Last.cpu.ip + Last.size > SIZE)
        => state = "Faulted" /\ fault = "out_of_range"

\* C6 (as claimed; the code does otherwise): a load that runs past the end
\* of the memory fails with ProgramTooLarge and leaves the memory and the
\* write cursor as they were.
C6_ProgramTooLarge ==
    (load.calls > 0 /\ hist = <<>> /\ load.breakLine + load.length > SIZE)
        => /\ state = "Faulted"
           /\ fault = "ProgramTooLarge"
           /\ memory = load.memory
           /\ breakLine = load.breakLine

FlagMask(op) ==
    CASE op \in {STE, CLE} -> Equal
      [] op \in {STG, CLG} -> Greater
      [] op \in {STH, CLH} -> Higher
      [] op \in {STL, CLL} -> Lower

Flag(c, mask) ==
    CASE mask = Equal -> isEqual(c)
      [] mask = Greater -> isGreater(c)
      [] mask = Higher -> isHigher(c)
      [] mask = Lower -> isLower(c)

\* C7: a set operation leaves its flag true, a clear operation leaves it
\* false, and both leave the other three flags as they were.
C7_FlagOps ==
    (Stepped /\ Last.instr.op \in FlagOps)
        => /\ state = "Running"
           /\ Flag(cpu, FlagMask(Last.instr.op)) = (Last.instr.op \in {STE, STG, STH, STL})
           /\ \A other \in {Equal, Greater, Higher, Lower} \ {FlagMask(Last.instr.op)} :
                  Flag(cpu, other) = Flag(Last.cpu, other)

C7_Witness ==
    /\ Stepped
    /\ Last.instr.op = CLG
    /\ Last.cpu.flags = 15
    /\ cpu.flags = 11

MovTarget(op) ==
    CASE op = MOV -> "ax" [] op = MOV_BX -> "bx" [] op = MOV_CX -> "cx"
      [] op = MOV_DX -> "dx" [] op = MOV_SP -> "sp"

\* C8: a move to register r with the operand v stored after its tag leaves
\* r = v and leaves the other registers among ax bx cx dx sp, the flags and
\* the memory as they were.
C8_Move ==
    (Stepped /\ Last.instr.op \in MovOps)
        => /\ state = "Running"
           /\ Last.instr.a1 = MemAt(Last.memory, Last.cpu.ip + 1)
                              + 256 * MemAt(Last.memory, Last.cpu.ip + 2)
           /\ \A r \in {"ax", "bx", "cx", "dx", "sp", "flags"} :
                  cpu[r] = IF r = MovTarget(Last.instr.op) THEN Last.instr.a1
                           ELSE Last.cpu[r]
           /\ memory = Last.memory

C8_Witness ==
    /\ Stepped
    /\ Last.instr.op = MOV_CX
    /\ Last.instr.a1 = 43981
    /\ Last.cpu.dx = 4660
    /\ cpu.cx = 43981
    /\ cpu.dx = 4660

SameStack(c, d) ==
    c.sp = d.sp /\ c.ax = d.ax /\ c.bx = d.bx /\ c.cx = d.cx /\ c.dx = d.dx

\* C9: a PUSH or POP whose selector is not 0, 1, 2 or 3 ends the run with an
\* Invalid register message, which is not the Illegal Instruction one, with
\* sp, ax, bx, cx, dx and the memory as they were; the selectors 0, 1, 2, 3
\* name ax, bx, cx, dx.
C9_Selector ==
    /\ (Stepped /\ Last.instr.op \in {PUSH, POP} /\ Last.instr.a1 \notin 0 .. 3)
           => /\ state = "Faulted"
              /\ fault = IF Last.instr.op = PUSH THEN "Invalid register for PUSH"
                         ELSE "Invalid register for POP"
              /\ fault # "Illegal Instruction"
              /\ SameStack(cpu, Last.cpu)
              /\ memory = Last.memory
    /\ (Stepped /\ Last.instr.op = PUSH /\ Last.instr.a1 \in 0 .. 3 /\ fault = "")
           => Word(memory, cpu.sp, cpu.sp + 1) = Reg(Last.cpu, Last.instr.a1)
    /\ (Stepped /\ Last.instr.op = POP /\ Last.instr.a1 \in 0 .. 3 /\ fault = "")
           => \A sel \in 0 .. 3 :
                  Reg(cpu, sel) = IF sel = Last.instr.a1
                                  THEN Word(Last.memory, Last.cpu.sp, Last.cpu.sp + 1)
                                  ELSE Reg(Last.cpu, sel)

C9_Witness ==
    /\ Stepped
    /\ Last.instr.op = POP
    /\ Last.instr.a1 = 256
    /\ Last.cpu.ax = 43981
    /\ Last.cpu.sp = 32766
    /\ fault = "Invalid register for POP"

\* C10: a step into Halted is taken from Running with the HLT tag at the
\* instruction pointer, and an iteration that fetches any other Opcode and
\* reports no error stays in Running.
C10_HaltOnlyOnHlt ==
    [][ /\ (state' = "Halted") => (state = "Running" /\ MemAt(memory, cpu.ip) = HLT)
        /\ (hist' # hist /\ MemAt(memory, cpu.ip) \in Opcode \ {HLT} /\ fault' = "")
               => state' = "Running" ]_vars

C10_Witness ==
    /\ state = "Halted"
    /\ Stepped
    /\ Last.instr.op = HLT
    /\ Last.cpu.ax = 4660

\* C11 (as claimed; the code does otherwise): whatever program was loaded,
\* the loop of execute eventually reaches Halted or Faulted.
C11_RunCompletes == <>(state \in {"Halted", "Faulted"})

\* C12: once an error was reported the run is Faulted and no further step
\* (fetch, dispatch or load) is possible, so Halted is never reached; the
\* memory is as it was before the faulting instruction was fetched, and the
\* registers differ from then only by the instruction pointer that the fetch
\* moved: the effect of the faulting operation is not applied.
C12_FaultAbsorbing ==
    (fault # "")
        => /\ state = "Faulted"
           /\ ~ENABLED Next
           /\ Stepped
           /\ memory = Last.memory
           /\ cpu = [Last.cpu EXCEPT !.ip = U16(Last.cpu.ip + Last.size)]

C12_Witness ==
    /\ fault = "Stack Overflow"
    /\ state = "Faulted"
    /\ Last.instr.op = PUSH
    /\ Last.cpu.ax = 43981
    /\ Last.cpu.sp = 1
    /\ cpu.sp = 1
    /\ memory = Last.memory

Loaded == load.calls > 0 /\ hist = <<>> /\ load.text # <<>>

\* the bytes that the last call of loadProgram stored
Stored == Stream(sizeMap, load.text, 1, Len(load.text))

\* C13 (as claimed; the code does otherwise): every call of loadProgram
\* stores the tag of the first instruction of its program in cell 0 and the
\* rest of the program in the cells that follow, whatever was loaded before.
C13_LoadAtZero ==
    Loaded
        => /\ load.breakLine = 0
           /\ MemAt(memory, 0) = U8(load.text[1].op)
           /\ \A k \in 1 .. Len(Stored) : MemAt(memory, k - 1) = Stored[k]

\* (a * b) mod 2^16, computed from the two bytes of a
Product16(a, b) == U16(U16((a % 256) * b) + 256 * U16((a \div 256) * b))

\* what the claims say ax holds after the arithmetic operation op
Expected(op, a, b) ==
    CASE op = ADD -> (a + b) % 65536
      [] op = SUB -> (a - b) % 65536
      [] op = MUL -> Product16(a, b)
      [] op = DIV -> a \div b

\* the program  MOV a, MOV_BX b, op, HLT  was loaded, once, into a fresh machine
ArithScenario ==
    /\ load.calls = 1
    /\ Len(load.text) = 4
    /\ load.text[1].op = MOV
    /\ load.text[2].op = MOV_BX
    /\ load.text[3].op \in {ADD, SUB, MUL, DIV}
    /\ load.text[4].op = HLT
    /\ ~(load.text[3].op = DIV /\ load.text[2].a1 = 0)

C15_NoSharedWrite == [][(peer.state = "Running") => (sizeMap' = sizeMap)]_vars

\* C16: a step that changes any of the four flags is an iteration of the
\* loop that fetched one of the eight flag operations; every other
\* iteration and every load leaves the flags as they were.
C16_FlagsFrame ==
    [][ (\E mask \in {Equal, Greater, Higher, Lower} : Flag(cpu', mask) # Flag(cpu, mask))
            => /\ hist' # hist
               /\ state = "Running"
               /\ MemAt(memory, cpu.ip) \in FlagOps ]_vars

C16_Witness ==
    /\ Stepped
    /\ Last.instr.op = PUSH
    /\ Last.cpu.flags = 4
    /\ cpu.flags = 4
    /\ cpu.sp = 65533

\* n successive calls of fetchNextInstruction, with no dispatch in between:
\* the instruction each returns, its size and the address of its tag
RECURSIVE FetchFrom(_, _, _, _)
FetchFrom(c, m, sm, n) ==
    IF n = 0 THEN <<>>
    ELSE LET f == fetchNextInstruction(c, m, sm)
         IN  <<[instr |-> f.instr, size |-> f.size, at |-> c.ip]>>
             \o FetchFrom(f.cpu, m, f.sizeMap, n - 1)

Recognized == \A i \in 1 .. Len(load.text) : load.text[i].op \in Opcode

Fetched == FetchFrom(cpu, memory, sizeMap, Len(load.text))

\* C17: after a program of Opcode instructions was loaded into a fresh
\* machine, the successive fetches from instruction pointer 0 return its
\* instructions in order: the same tag and, for a 3-byte instruction, the
\* same first operand, whose low byte is in the cell after the tag and whose
\* high byte is in the next one.
C17_LoadFetchRoundTrip ==
    (Loaded /\ load.calls = 1 /\ Recognized)
        => /\ cpu.ip = 0
           /\ \A i \in 1 .. Len(load.text) :
                  /\ Fetched[i].instr.op = load.text[i].op
                  /\ (Fetched[i].size = 3)
                         => /\ Fetched[i].instr.a1 = load.text[i].a1
                            /\ MemAt(memory, Fetched[i].at + 1) = load.text[i].a1 % 256
                            /\ MemAt(memory, Fetched[i].at + 2) = load.text[i].a1 \div 256

C17_Witness ==
    /\ Loaded
    /\ load.calls = 1
    /\ Len(load.text) = 5
    /\ load.text[2] = Instruction(MOV_BX, 20485)
    /\ Fetched[2].instr = Instruction(MOV_BX, 20485)
    /\ Fetched[2].at = 3
    /\ MemAt(memory, 4) = 5
    /\ MemAt(memory, 5) = 80

\* the sum of what getInstructionSize returns for program[1 .. n]
RECURSIVE LookedUp(_, _, _)
LookedUp(sm, program, n) ==
    IF n = 0 THEN 0
    ELSE LookedUp(sm, program, n - 1) + getInstructionSize(sm, program[n].op).size

\* C18 (as claimed; the code does otherwise): a call of loadProgram does not
\* move the write cursor back, and moves it forward by the sizes that
\* getInstructionSize returns for the tags of the program, whatever they
\* are, which is also the number of bytes that the call stores.
C18_CursorAdvance ==
    Loaded
        => /\ breakLine >= load.breakLine
           /\ breakLine - load.breakLine = LookedUp(sizeMap, load.text, Len(load.text))
           /\ load.length = LookedUp(sizeMap, load.text, Len(load.text))

\* the encoded length that the claims give for each Opcode
EncodedLength(op) == IF op \in MovOps \cup {PUSH, POP} THEN 3 ELSE 1

\* C19 (as claimed; the code does otherwise): after an iteration that
\* reported no error, the instruction pointer is the one before the fetch
\* plus the encoded length of the fetched tag, and so is greater than it was.
C19_IpAdvance ==
    (Stepped /\ fault = "")
        => /\ Last.instr.op \in Opcode
           /\ cpu.ip = Last.cpu.ip + EncodedLength(Last.instr.op)
           /\ cpu.ip > Last.cpu.ip

ArithStep ==
    /\ Stepped
    /\ Last.instr.op \in {ADD, SUB, MUL, DIV}
    /\ ~(Last.instr.op = DIV /\ Last.cpu.bx = 0)

StackStep(op) ==
    /\ Stepped
    /\ Last.instr.op = op
    /\ Last.instr.a1 \in 0 .. 3
    /\ fault = ""

\* C21 (as claimed; the code does otherwise): a successful push leaves the
\* stack pointer 2 lower, with the low byte of the value in the cell at the
\* new stack pointer and the high byte in the next one; a successful pop
\* returns the value of the two cells at the old stack pointer and leaves
\* the stack pointer 2 higher, whatever the stack pointer was.
C21_PushPopEffect ==
    /\ StackStep(PUSH)
           => /\ cpu.sp = Last.cpu.sp - 2
              /\ MemAt(memory, cpu.sp) = Reg(Last.cpu, Last.instr.a1) % 256
              /\ MemAt(memory, cpu.sp + 1) = Reg(Last.cpu, Last.instr.a1) \div 256
    /\ StackStep(POP)
           => /\ Reg(cpu, Last.instr.a1)
                     = MemAt(Last.memory, Last.cpu.sp)
                       + 256 * MemAt(Last.memory, Last.cpu.sp + 1)
              /\ cpu.sp = Last.cpu.sp + 2

\* C22 (as claimed; the code does otherwise): the lookup of a tag that is
\* no Opcode fails and leaves the table of sizes as it was: the table is
\* always the initial one, a load of a program with such a tag ends the run
\* with an error, and so does a fetch of such a tag.
C22_UnmappedTagFails ==
    /\ sizeMap = SizeMapInit
    /\ (Loaded /\ ~Recognized) => (state = "Faulted" /\ fault # "")
    /\ (Stepped /\ MemAt(Last.memory, Last.cpu.ip) \notin Opcode)
           => (state = "Faulted" /\ fault # "")

\* the pops that had succeeded before the last iteration
PopsBefore == IF StackStep(POP) THEN stack.pops - 1 ELSE stack.pops

\* C23: while no MOV_SP was executed, sp = 0xFFFF - 2 * (pushes - pops) for
\* the pushes and pops that succeeded, there are never more pops than pushes,
\* and a pop made when there were as many pops as pushes reports Stack
\* Underflow.
C23_StackDiscipline ==
    (~stack.moved)
        => /\ cpu.sp = 65535 - 2 * (stack.pushes - stack.pops)
           /\ stack.pops <= stack.pushes
           /\ (Stepped /\ Last.instr.op = POP /\ Last.instr.a1 \in 0 .. 3
                  /\ PopsBefore = stack.pushes)
                  => (state = "Faulted" /\ fault = "Stack Underflow")

C23_Witness ==
    /\ ~stack.moved
    /\ stack.pushes = 2
    /\ stack.pops = 1
    /\ cpu.sp = 65533
    /\ Last.instr.op = POP
    /\ fault = ""

\* the instruction that the next iteration fetches
Fetching == fetchNextInstruction(cpu, memory, sizeMap).instr

\* what was pushed last and not yet popped, and the stack pointer before
\* that push
Top == stack.values[Len(stack.values)]

\* C24: values are popped in the reverse order of their pushes.  While
\* pushes since the last MOV_SP are not yet popped, a pop succeeds, returns
\* the value of the newest of them and leaves the stack pointer as it was
\* before that push; so k pops after k pushes return the k values in
\* reverse order and restore the stack pointer.
C24_Lifo ==
    [][ (/\ hist' # hist
         /\ stack.values # <<>>
         /\ Fetching.op = POP
         /\ Fetching.a1 \in 0 .. 3)
            => /\ fault' = ""
               /\ Reg(cpu', Fetching.a1) = Top.val
               /\ cpu'.sp = Top.sp
               /\ stack'.values = SubSeq(stack.values, 1, Len(stack.values) - 1) ]_vars

C24_Witness ==
    /\ Len(hist) = 2
    /\ Prev.instr.op = POP
    /\ Last.instr.op = POP
    /\ stack.pushes = 3
    /\ stack.pops = 3
    /\ stack.values = <<>>
    /\ Prev.cpu.dx = 255
    /\ Last.cpu.dx = 43981
    /\ cpu.dx = 4660
    /\ cpu.ax = 1
    /\ cpu.sp = 32768

\* the cells whose byte differs between the memories m and n
Changed(m, n) ==
    IF m.fill # n.fill THEN 0 .. (SIZE - 1)
    ELSE {a \in DOMAIN m.bytes \cup DOMAIN n.bytes : MemContent(m, a) # MemContent(n, a)}

\* C25: an iteration of the loop changes memory only when it is a push that
\* succeeds, and then only in the cells s and s + 1 for the new stack
\* pointer s, which lies in 0 .. 65533; every other iteration (a pop, HLT,
\* any iteration that reports an error) leaves every cell as it was.
C25_MemoryFrame ==
    [][ (hist' # hist)
            => IF Fetching.op = PUSH /\ fault' = ""
               THEN /\ cpu'.sp \in 0 .. (SIZE - 3)
                    /\ Changed(memory, memory') \subseteq {cpu'.sp, cpu'.sp + 1}
               ELSE memory' = memory /\ Changed(memory, memory') = {} ]_vars

C25_Witness ==
    /\ StackStep(PUSH)
    /\ Last.cpu.sp = 2
    /\ cpu.sp = 0
    /\ Changed(Last.memory, memory) = {0, 1}
    /\ MemAt(Last.memory, 0) = MOV_SP
    /\ MemAt(memory, 0) = 205
    /\ MemAt(memory, 1) = 171

\* a program of Opcode instructions with no HLT and no PUSH was loaded,
\* once, into a fresh machine
RunsOffEnd ==
    /\ load.calls = 1
    /\ load.text # <<>>
    /\ Recognized
    /\ \A i \in 1 .. Len(load.text) : load.text[i].op \notin {HLT, PUSH}
    /\ load.length < SIZE

\* C26: the run of such a program, of L bytes, is never Halted and never
\* gets past cell L: either an operation reports an error before, or the
\* byte 0x00 of cell L is fetched with the instruction pointer at L and the
\* run ends there with Illegal Instruction.
C26_RunsOffEnd ==
    RunsOffEnd
        => /\ state # "Halted"
           /\ cpu.ip <= load.length
           /\ (state = "Running") => (ENABLED execute)
           /\ (state = "Running" /\ cpu.ip = load.length) => (Fetching.op = 0)
           /\ (Stepped /\ Last.cpu.ip = load.length)
                  => /\ Last.instr.op = 0
                     /\ state = "Faulted"
                     /\ fault = "Illegal Instruction"
                     /\ cpu.ip = load.length
           /\ (Stepped /\ Last.cpu.ip < load.length /\ state = "Faulted")
                  => fault \in {"Stack Underflow", "Division by zero",
                                "Invalid register for POP", "signed integer overflow"}

C26_Witness ==
    /\ RunsOffEnd
    /\ Len(load.text) = 2
    /\ load.length = 6
    /\ Stepped
    /\ Last.cpu.ip = 6
    /\ Last.cpu.cx = 43981
    /\ cpu.ip = 6
    /\ fault = "Illegal Instruction"

====
